---- MODULE Spec2Model ----
(***************************************************************************)
(* Data-set parsers, history filtering, the synthetic lesson and IRT       *)
(* samplers, the model builders, one estimator fit, the evaluation         *)
(* workflow and the results table of the lentil notebooks.                 *)
(*                                                                         *)
(* A pandas table is modelled by its rows.  A row keeps its pandas index   *)
(* label (field index), so the assessment row and the artificial lesson    *)
(* row copied from it stay two distinct rows of one table.  Optional       *)
(* values (NaN, None) are the empty tuple, a present value v is <<v>>.     *)
(***************************************************************************)
EXTENDS Integers, Sequences, FiniteSets, TLC

VARIABLES
    parser,              \* which of the three parser functions runs
    raw,                 \* the raw dataframe, in the order data.sort left it
    pc,                  \* position inside the running notebook cell
    data,                \* local dataframe `data` of the parser
    student_timesteps,   \* defaultdict(int) of the parser loop
    timesteps,           \* the filled prefix of the list `timesteps`
    history,             \* rows of the current InteractionHistory (.data)
    log,                 \* records written to the logging module so far
    unfiltered_history,  \* notebook global unfiltered_history
    min_num_ixns,        \* thresholds passed to filter_history
    max_num_ixns,
    num_applied,         \* iterations of the reduce over range(REPEATED_FILTER) done
    num_removed,         \* len(acc.data) - len(filter_history(acc).data) of the last iteration
    steps,               \* the shuffled list `steps` of the sampled student
    step_pos,            \* iterations of `for i, j in steps` done
    x, y,                \* grid position of the sampled student
    t,                   \* timestep of the sampled student
    S,                   \* S[student_idx, :, .] of the sampled student
    num_assessed,        \* iterations of the inner assessment loop done
    call_args,           \* arguments of the builder call of every fold
    builder,             \* the model builder the folds are fitted with
    estimators,          \* fields of the estimator objects
    fit_pc,              \* position of every builder call
    trained_on,          \* the histories every model.fit(estimator) read
    USING_2PL,           \* notebook global USING_2PL
    proficiencies,       \* the drawn parameters of the synthetic IRT model
    difficulties,
    discriminabilities,
    ixns,                \* the list ixns of the IRT sampling cell
    student_idx,         \* loop variables and locals of the IRT sampling cell
    module_idx,
    pass_likelihood,
    idx_of_student_id,   \* the id <-> index maps of the history object
    id_of_student_idx,
    idx_of_assessment_id,
    id_of_assessment_idx,
    idx_of_lesson_id,
    id_of_lesson_idx,
    model_builders,      \* the notebook dict model_builders: name -> builder
    num_folds,           \* num_folds passed to evaluate.cross_validated_auc
    results,             \* notebook global results: per model name, its per-fold results
    results_file,        \* the pickled results at results_path
    cv_runs,             \* calls of evaluate.cross_validated_auc so far
    compared,            \* the arguments of the last results.compare_validation_aucs
    using_scipy,         \* using_scipy of the estimator that is fitting
    status,              \* status of the estimator fit
    iteration,           \* optimizer iterations done
    loss,                \* objective value of the current iterate
    prev_loss,           \* objective value of the iterate before
    name_pos,            \* names of the results table loop already visited
    train_auc,           \* locals of the results table loop
    val_auc,
    test_auc,
    printed              \* rows the results table loop has printed

parseVars == <<parser, raw, pc, data, student_timesteps, timesteps>>
filterVars == <<unfiltered_history, min_num_ixns, max_num_ixns, num_applied, num_removed>>
synthVars == <<steps, step_pos, x, y, t, S, num_assessed>>
fitVars == <<call_args, builder, estimators, fit_pc, trained_on>>
irtVars == <<USING_2PL, proficiencies, difficulties, discriminabilities,
             ixns, student_idx, module_idx, pass_likelihood>>
idxVars == <<idx_of_student_id, id_of_student_idx, idx_of_assessment_id,
             id_of_assessment_idx, idx_of_lesson_id, id_of_lesson_idx>>
evalVars == <<model_builders, num_folds, results, results_file, cv_runs, compared>>
estVars == <<using_scipy, status, iteration, loss, prev_loss>>
tableVars == <<name_pos, train_auc, val_auc, test_auc, printed>>
vars == <<parseVars, history, log, filterVars, synthVars, fitVars, irtVars, idxVars, evalVars, estVars, tableVars>>

(***************************************************************************)
(* Bounds of the model                                                     *)
(***************************************************************************)
MaxRaw == 3          \* rows of a raw dataframe
MaxLen == 3          \* interactions of one student in an unfiltered history
MaxApply == 5        \* applications of filter_history that are followed

Students == {"s1", "s2"}
RawModules == {"m1"}
Modules == {"m1", "m2", "m3"}
Parsers == {"grockit", "kdd_cup", "assistments"}

\* Optional values.
None == <<>>
Some(v) == <<v>>
IsNone(o) == o = None
Val(o) == o[1]

\* (outcome, duration) of a raw row: binary and other outcomes, positive,
\* zero, negative and missing durations.
RawKinds ==
    { <<Some(0), Some(2)>>, <<Some(1), Some(2)>>, <<Some(2), Some(2)>>,
      <<None, Some(2)>>, <<Some(1), Some(0)>>, <<Some(1), Some(-1)>>,
      <<Some(1), None>> }

RawRows ==
    { [student_id |-> s, module_id |-> m, outcome |-> k[1], duration |-> k[2]] :
        s \in Students, m \in RawModules, k \in RawKinds }

SeqsUpTo(elems, n) == UNION { [1..k -> elems] : k \in 0..n }

AssessmentInteraction_MODULETYPE == "assessment"
LessonInteraction_MODULETYPE == "lesson"

(***************************************************************************)
(* The three parsers                                                       *)
(***************************************************************************)

\* data[((data['outcome']==1) | (data['outcome']==0)) & (data['duration'] > 0)]
\* A comparison with NaN is False.
IsValidRow_ZeroDuration(r) ==
    /\ ~IsNone(r.outcome) /\ (Val(r.outcome) = 1 \/ Val(r.outcome) = 0)
    /\ ~IsNone(r.duration) /\ Val(r.duration) >= 0

IsValidRow(r) ==
    /\ ~IsNone(r.outcome) /\ (Val(r.outcome) = 1 \/ Val(r.outcome) = 0)
    /\ ~IsNone(r.duration) /\ Val(r.duration) > 0

\* data['outcome'].apply(lambda x: x == 1)
CastOutcome(o) == Some(Val(o) = 1)

\* The duration column as a fraction <<numerator, denominator>> of a second:
\* assistments maps milliseconds to seconds (x / 1000, true division).
ConvertDuration(p, d) ==
    IF p = "assistments" THEN <<Val(d), 1000>> ELSE <<Val(d), 1>>

\* Indices of the rows of the raw dataframe that pass the filter, in order.
RECURSIVE ValidIndices(_, _)
ValidIndices(s, j) ==
    IF j > Len(s) THEN <<>>
    ELSE IF IsValidRow(s[j]) THEN <<j>> \o ValidIndices(s, j + 1)
         ELSE ValidIndices(s, j + 1)

\* The dataframe after column selection, the validity filter and the casts.
\* pandas keeps the index label of every surviving row.
FilteredData(p, rawdata) ==
    LET keep == ValidIndices(rawdata, 1)
    IN  [k \in 1..Len(keep) |->
            [index |-> keep[k],
             student_id |-> rawdata[keep[k]].student_id,
             module_id |-> rawdata[keep[k]].module_id,
             outcome |-> CastOutcome(rawdata[keep[k]].outcome),
             duration |-> ConvertDuration(p, rawdata[keep[k]].duration)]]

\* student_timesteps[ixn['student_id']] += 1
IncrementTimestep_Shared(st, s) == [sid \in DOMAIN st |-> st[sid] + 1]

IncrementTimestep(st, s) == [st EXCEPT ![s] = @ + 1]

\* A row of an interaction table.
Row(ix, s, m, ty, o, d, ts) ==
    [index |-> ix, student_id |-> s, module_id |-> m, module_type |-> ty,
     outcome |-> o, duration |-> d, timestep |-> ts]

\* data with its timestep and module_type columns.
AssessmentData(d, ts) ==
    { Row(d[k].index, d[k].student_id, d[k].module_id,
          AssessmentInteraction_MODULETYPE, d[k].outcome, d[k].duration, ts[k]) :
        k \in 1..Len(d) }

\* lesson_data = data.copy(deep=True); lesson_data['module_type'] = lesson
LessonData(rows) ==
    { [r EXCEPT !.module_type = LessonInteraction_MODULETYPE] : r \in rows }

\* Timesteps of one student in a table.
TimestepsOf(rows, s) == { r.timestep : r \in { q \in rows : q.student_id = s } }

\* InteractionHistory.reindex_timesteps: the distinct timesteps of every
\* student are renumbered 1, 2, ... in increasing order.
reindex_timesteps(rows) ==
    { [r EXCEPT !.timestep =
          Cardinality({ u \in TimestepsOf(rows, r.student_id) : u <= r.timestep })] :
        r \in rows }

\* datatools.InteractionHistory(data, sort_by_timestep=..., reindex_timesteps=...):
\* the rows it stores.  Sorting changes the order of the rows only.
InteractionHistory(rows, reindex) ==
    IF reindex THEN reindex_timesteps(rows) ELSE rows

\* The dense zero-based index of every id of a set of <<id, row label>>
\* occurrences, in the order of first appearance in the table.
DenseIdx(occ) ==
    LET ids == { o[1] : o \in occ }
        first(id) == CHOOSE k \in { o[2] : o \in { q \in occ : q[1] = id } } :
                        \A o \in occ : o[1] = id => k <= o[2]
    IN  [id \in ids |-> Cardinality({ j \in ids : first(j) < first(id) })]

\* The inverse dictionary {idx: id}.
Inverse(f) == [i \in { f[k] : k \in DOMAIN f } |-> CHOOSE k \in DOMAIN f : f[k] = i]

\* InteractionHistory.compute_idx_maps(assessment_idx=..., lesson_idx=...):
\* a map that is passed is installed as it is, the others are built from
\* the table.
compute_idx_maps(rows, assessment_idx, lesson_idx) ==
    LET student_map == DenseIdx({ <<r.student_id, r.index>> : r \in rows })
        assessment_map ==
            IF IsNone(assessment_idx)
            THEN DenseIdx({ <<r.module_id, r.index>> :
                     r \in { q \in rows : q.module_type = AssessmentInteraction_MODULETYPE } })
            ELSE Val(assessment_idx)
        lesson_map ==
            IF IsNone(lesson_idx)
            THEN DenseIdx({ <<r.module_id, r.index>> :
                     r \in { q \in rows : q.module_type = LessonInteraction_MODULETYPE } })
            ELSE Val(lesson_idx)
    IN  [idx_of_student_id |-> student_map,
         id_of_student_idx |-> Inverse(student_map),
         idx_of_assessment_id |-> assessment_map,
         id_of_assessment_idx |-> Inverse(assessment_map),
         idx_of_lesson_id |-> lesson_map,
         id_of_lesson_idx |-> Inverse(lesson_map)]

InitIdleIdx ==
    /\ idx_of_student_id = <<>>
    /\ id_of_student_idx = <<>>
    /\ idx_of_assessment_id = <<>>
    /\ id_of_assessment_idx = <<>>
    /\ idx_of_lesson_id = <<>>
    /\ id_of_lesson_idx = <<>>

InitIdleEval ==
    /\ model_builders = <<>>
    /\ num_folds = 0
    /\ results = <<>>
    /\ results_file = None
    /\ cv_runs = 0
    /\ compared = None

InitIdleTable ==
    /\ name_pos = 0
    /\ train_auc = None
    /\ val_auc = None
    /\ test_auc = None
    /\ printed = <<>>

InitIdleEst ==
    /\ using_scipy = FALSE
    /\ status = "none"
    /\ iteration = 0
    /\ loss = None
    /\ prev_loss = None

InitIdleSynth ==
    /\ steps = <<>>
    /\ step_pos = 0
    /\ x = 0
    /\ y = 0
    /\ t = 0
    /\ S = <<>>
    /\ num_assessed = 0

InitIdleFit ==
    /\ call_args = <<>>
    /\ builder = "none"
    /\ estimators = <<>>
    /\ fit_pc = <<>>
    /\ trained_on = <<>>

InitIdleIrt ==
    /\ USING_2PL = FALSE
    /\ proficiencies = <<>>
    /\ difficulties = <<>>
    /\ discriminabilities = <<>>
    /\ ixns = <<>>
    /\ student_idx = 0
    /\ module_idx = 0
    /\ pass_likelihood = 0

InitIdleFilter ==
    /\ unfiltered_history = {}
    /\ min_num_ixns = 0
    /\ max_num_ixns = 0
    /\ num_applied = 0
    /\ num_removed = 0

InitParse ==
    /\ parser \in Parsers
    /\ raw \in SeqsUpTo(RawRows, MaxRaw)
    /\ pc = "select"
    /\ data = <<>>
    /\ student_timesteps = [s \in Students |-> 0]
    /\ timesteps = <<>>
    /\ history = {}
    /\ log = <<>>
    /\ InitIdleFilter
    /\ InitIdleSynth
    /\ InitIdleFit
    /\ InitIdleIrt
    /\ InitIdleIdx
    /\ InitIdleEval
    /\ InitIdleEst
    /\ InitIdleTable

\* Column selection, validity filter, casts; the loop state is set up.
SelectAndFilter ==
    /\ pc = "select"
    /\ data' = FilteredData(parser, raw)
    /\ student_timesteps' = [s \in Students |-> 0]
    /\ timesteps' = <<>>
    /\ pc' = "loop"
    /\ UNCHANGED <<tableVars, estVars, evalVars, idxVars, irtVars, parser, raw, history, log, filterVars, synthVars, fitVars>>

\* One iteration of: for i, (_, ixn) in enumerate(data.iterrows())
AssignTimestep ==
    /\ pc = "loop"
    /\ Len(timesteps) < Len(data)
    /\ LET ixn == data[Len(timesteps) + 1]
           st == IncrementTimestep(student_timesteps, ixn.student_id)
       IN  /\ student_timesteps' = st
           /\ timesteps' = Append(timesteps, st[ixn.student_id])
    /\ UNCHANGED <<tableVars, estVars, evalVars, idxVars, irtVars, parser, raw, pc, data, history, log, filterVars, synthVars, fitVars>>

\* The columns are added and the table is handed to InteractionHistory.
BuildHistory ==
    /\ pc = "loop"
    /\ Len(timesteps) = Len(data)
    /\ LET a == AssessmentData(data, timesteps)
       IN  history' = InteractionHistory(a \cup LessonData(a), FALSE)
    /\ pc' = "built"
    /\ UNCHANGED <<tableVars, estVars, evalVars, idxVars, irtVars, parser, raw, data, student_timesteps, timesteps, log, filterVars, synthVars, fitVars>>

NextParse == SelectAndFilter \/ AssignTimestep \/ BuildHistory

SpecParse == InitParse /\ [][NextParse]_vars

(***************************************************************************)
(* filter_history and the repeated filtering                               *)
(***************************************************************************)
REPEATED_FILTER == 3

MinChoices == {1, 2}
MaxChoices == {3, 4}

StudentsOf(rows) == { r.student_id : r \in rows }
ModulesOf(rows) == { r.module_id : r \in rows }

\* students = set(student_id[(timestep > min_num_ixns) & (module_type == assessment)])
\* students -= set(student_id[timestep >= max_num_ixns])
FilterStudents(rows, mn, mx) ==
    { r.student_id : r \in { q \in rows :
          /\ q.timestep > mn
          /\ q.module_type = AssessmentInteraction_MODULETYPE } }
    \ { r.student_id : r \in { q \in rows : q.timestep >= mx } }

\* {module_id for module_id, group in data.groupby('module_id') if len(group) > min_num_ixns}
FilterModules_AssessmentsOnly(rows, mn) ==
    { m \in ModulesOf(rows) :
        Cardinality({ r \in rows :
                        /\ r.module_id = m
                        /\ r.module_type = AssessmentInteraction_MODULETYPE }) > mn }

FilterModules(rows, mn) ==
    { m \in ModulesOf(rows) :
        Cardinality({ r \in rows : r.module_id = m }) > mn }

\* Variant of the selection: the two masks are joined with | instead of &.
FilteredRows_EitherMask(rows, mn, mx) ==
    { r \in rows : \/ r.student_id \in FilterStudents(rows, mn, mx)
                   \/ r.module_id \in FilterModules(rows, mn) }

\* Variant of the selection: the module mask is applied to assessment rows
\* only.
FilteredRows_ModuleMaskOnAssessments(rows, mn, mx) ==
    { r \in rows : /\ r.student_id \in FilterStudents(rows, mn, mx)
                   /\ \/ r.module_type = LessonInteraction_MODULETYPE
                      \/ r.module_id \in FilterModules(rows, mn) }

\* The rows filter_history selects.
FilteredRows(rows, mn, mx) ==
    { r \in rows : /\ r.student_id \in FilterStudents(rows, mn, mx)
                   /\ r.module_id \in FilterModules(rows, mn) }

\* Variants of filter_history: the table is handed over without renumbering;
\* the timesteps are renumbered from the last one down.
filter_history_NoReindex(rows, mn, mx) ==
    InteractionHistory(FilteredRows(rows, mn, mx), FALSE)

filter_history_Descending(rows, mn, mx) ==
    LET kept == FilteredRows(rows, mn, mx)
    IN  { [r EXCEPT !.timestep =
              Cardinality({ u \in TimestepsOf(kept, r.student_id) : u >= r.timestep })] :
            r \in kept }

filter_history(rows, mn, mx) ==
    InteractionHistory(FilteredRows(rows, mn, mx), TRUE)

\* lambda acc, _: filter_history(acc, min_num_ixns=..., max_num_ixns=...)
ReduceStep_IgnoreAcc(acc, unfiltered, mn, mx) == filter_history(unfiltered, mn, mx)

\* Variant: an emptied accumulator is replaced by the unfiltered history.
ReduceStep_RestartWhenEmpty(acc, unfiltered, mn, mx) ==
    filter_history(IF acc = {} THEN unfiltered ELSE acc, mn, mx)

ReduceStep(acc, unfiltered, mn, mx) == filter_history(acc, mn, mx)

\* The list `timesteps` the parser loop leaves, from row k on.
RECURSIVE LoopTimesteps(_, _, _)
LoopTimesteps(d, k, st) ==
    IF k > Len(d) THEN <<>>
    ELSE LET st2 == IncrementTimestep(st, d[k].student_id)
         IN  <<st2[d[k].student_id]>> \o LoopTimesteps(d, k + 1, st2)

\* A valid raw table: the interactions of s1, then those of s2; the outcomes
\* alternate between 1 and 0.
RawOf(seqs) ==
    LET rowsOf(s) ==
            [k \in 1..Len(seqs[s]) |->
                [student_id |-> s, module_id |-> seqs[s][k],
                 outcome |-> Some(k % 2), duration |-> Some(2)]]
    IN  rowsOf("s1") \o rowsOf("s2")

\* The state a finished parser run leaves, and the thresholds of the filter.
InitFilter ==
    /\ \E seqs \in [Students -> SeqsUpTo(Modules, MaxLen)] : raw = RawOf(seqs)
    /\ parser = "assistments"
    /\ data = FilteredData(parser, raw)
    /\ timesteps = LoopTimesteps(data, 1, [s \in Students |-> 0])
    /\ student_timesteps =
           [s \in Students |->
               Cardinality({ k \in 1..Len(data) : data[k].student_id = s })]
    /\ LET a == AssessmentData(data, timesteps)
       IN  history = InteractionHistory(a \cup LessonData(a), FALSE)
    /\ unfiltered_history = history
    /\ pc = "filter"
    /\ log = <<>>
    /\ min_num_ixns \in MinChoices
    /\ max_num_ixns \in MaxChoices
    /\ num_applied = 0
    /\ num_removed = 0
    /\ InitIdleSynth
    /\ InitIdleFit
    /\ InitIdleIrt
    /\ InitIdleIdx
    /\ InitIdleEval
    /\ InitIdleEst
    /\ InitIdleTable

\* One iteration of the reduce; the model follows MaxApply of them.
ApplyFilter ==
    /\ pc = "filter"
    /\ num_applied < MaxApply
    /\ history' = ReduceStep(history, unfiltered_history, min_num_ixns, max_num_ixns)
    /\ num_applied' = num_applied + 1
    /\ num_removed' = Cardinality(history) - Cardinality(history')
    /\ UNCHANGED <<tableVars, estVars, evalVars, idxVars, irtVars, parseVars, log, unfiltered_history, min_num_ixns, max_num_ixns, synthVars, fitVars>>

NextFilter == ApplyFilter

SpecFilter == InitFilter /\ [][NextFilter]_vars

(***************************************************************************)
(* Properties of the parsers                                               *)
(***************************************************************************)
AssessmentRows(rows) ==
    { r \in rows : r.module_type = AssessmentInteraction_MODULETYPE }
LessonRows(rows) ==
    { r \in rows : r.module_type = LessonInteraction_MODULETYPE }

\* Positions of the rows of student s the loop has processed so far.
ProcessedOf(s) == { k \in 1..Len(timesteps) : data[k].student_id = s }

\* C1: after any number of loop iterations the timesteps given to the rows of
\* a student are exactly 1..k, k the number of that student's rows processed,
\* and grow with the position of the row in the sorted table; the assessment
\* rows of the history built from them have one row per timestep 1..k.
C1_ParserTimestepsContiguous ==
    /\ pc \in {"loop", "built"} =>
          \A s \in Students :
              /\ { timesteps[k] : k \in ProcessedOf(s) } = 1..Cardinality(ProcessedOf(s))
              /\ \A k1, k2 \in ProcessedOf(s) : k1 < k2 => timesteps[k1] < timesteps[k2]
    /\ pc = "built" =>
          \A s \in Students :
              LET a == { r \in AssessmentRows(history) : r.student_id = s }
              IN  /\ { r.timestep : r \in a } = 1..Cardinality(a)
                  /\ \A r1, r2 \in a : r1.index < r2.index => r1.timestep < r2.timestep

\* A history is built from three valid rows, the rows of one student lying
\* around a row of the other.
C1_Witness ==
    /\ pc = "built"
    /\ Len(data) = 3
    /\ data[1].student_id = data[3].student_id
    /\ data[1].student_id # data[2].student_id
    /\ timesteps = <<1, 1, 2>>

\* The condition of the claim on a raw row, stated on its own.
BinaryOutcomePositiveDuration(r) ==
    /\ r.outcome \in {Some(0), Some(1)}
    /\ r.duration # None
    /\ Val(r.duration) >= 1

KeptRawIndices == { j \in 1..Len(raw) : BinaryOutcomePositiveDuration(raw[j]) }

\* C6: a raw row is in the table the timesteps are assigned to, and in the
\* constructed history, iff its outcome is 0 or 1 and its duration is
\* strictly positive.
C6_OnlyValidRowsIngested ==
    /\ pc \in {"loop", "built"} =>
          /\ { data[k].index : k \in 1..Len(data) } = KeptRawIndices
          /\ Len(data) = Cardinality(KeptRawIndices)
    /\ pc = "built" =>
          /\ { r.index : r \in AssessmentRows(history) } = KeptRawIndices
          /\ { r.index : r \in history } = KeptRawIndices

\* A history is built from a table that held a valid row, a row with a
\* non-binary outcome and a row with a non-positive or missing duration.
C6_Witness ==
    /\ pc = "built"
    /\ KeptRawIndices # {}
    /\ \E j \in 1..Len(raw) : raw[j].outcome \notin {Some(0), Some(1)}
    /\ \E j \in 1..Len(raw) :
          /\ raw[j].outcome \in {Some(0), Some(1)}
          /\ (raw[j].duration = None \/ Val(raw[j].duration) <= 0)

\* C7: in the table a parser hands to InteractionHistory every assessment
\* interaction carries a boolean outcome and every lesson interaction
\* carries no outcome.
C7_LessonsCarryNoOutcome ==
    pc = "built" =>
        /\ \A r \in AssessmentRows(history) : r.outcome \in {Some(TRUE), Some(FALSE)}
        /\ \A r \in LessonRows(history) : r.outcome = None

\* Number of dropped rows the log accounts for.
RECURSIVE LoggedDropped(_)
LoggedDropped(l) ==
    IF l = <<>> THEN 0 ELSE Head(l).dropped + LoggedDropped(Tail(l))

\* C10: when a parser has built its history, the rows it kept and the dropped
\* rows it logged add up to the rows of its input.
C10_DroppedRowsLogged ==
    pc = "built" => Len(data) + LoggedDropped(log) = Len(raw)

(***************************************************************************)
(* Properties of filter_history                                            *)
(***************************************************************************)
AssessmentCount(rows, s) ==
    Cardinality({ r \in AssessmentRows(rows) : r.student_id = s })

\* C2: filter_history keeps exactly the students whose number of assessment
\* interactions lies in the closed interval [min_num_ixns, max_num_ixns].
C2_StudentsInClosedInterval ==
    pc = "filter" =>
        FilterStudents(history, min_num_ixns, max_num_ixns) =
            { s \in StudentsOf(history) :
                /\ AssessmentCount(history, s) >= min_num_ixns
                /\ AssessmentCount(history, s) <= max_num_ixns }

\* What the selection does on these histories: both ends are excluded.
StudentsInOpenInterval ==
    pc = "filter" =>
        FilterStudents(history, min_num_ixns, max_num_ixns) =
            { s \in StudentsOf(history) :
                /\ AssessmentCount(history, s) > min_num_ixns
                /\ AssessmentCount(history, s) < max_num_ixns }

Filtered(rows) == filter_history(rows, min_num_ixns, max_num_ixns)

\* C3 as stated: after REPEATED_FILTER applications a further application
\* of filter_history removes no row.
C3_ThreeApplicationsReachFixedPoint ==
    (pc = "filter" /\ num_applied = REPEATED_FILTER) =>
        Cardinality(Filtered(history)) = Cardinality(history)

\* C3 amended: after REPEATED_FILTER applications a further application
\* removes no row, provided the last of them removed no row.
C3_FixedPointWhenLastRemovedNone ==
    (pc = "filter" /\ num_applied = REPEATED_FILTER /\ num_removed = 0) =>
        Cardinality(Filtered(history)) = Cardinality(history)

\* The three applications removed rows, the last one none, and rows remain.
C3_Witness ==
    /\ pc = "filter"
    /\ num_applied = REPEATED_FILTER
    /\ num_removed = 0
    /\ history # {}
    /\ Cardinality(history) < Cardinality(unfiltered_history)

\* C4: after one or more applications of filter_history the timesteps of
\* every remaining student are the contiguous range 1..k.
C4_FilteredTimestepsContiguous ==
    (pc = "filter" /\ num_applied >= 1) =>
        \A s \in StudentsOf(history) :
            TimestepsOf(history, s) = 1..Cardinality(TimestepsOf(history, s))

\* One application kept a student and removed the module of one of the
\* student's intermediate timesteps.
C4_Witness ==
    /\ pc = "filter"
    /\ num_applied = 1
    /\ \E r1, r2, r3 \in AssessmentRows(unfiltered_history) :
          /\ r1.student_id = r2.student_id /\ r2.student_id = r3.student_id
          /\ r1.timestep < r2.timestep /\ r2.timestep < r3.timestep
          /\ r1.index \in { r.index : r \in history }
          /\ r2.index \notin { r.index : r \in history }
          /\ r3.index \in { r.index : r \in history }

\* C5: when filter_history removes no row from a history that is itself an
\* output of filter_history, its output is the input, rows and timesteps,
\* and so is the output of the application after it.
C5_IdempotentAtFixedPoint ==
    (/\ pc = "filter"
     /\ num_applied >= 1
     /\ Cardinality(Filtered(history)) = Cardinality(history)) =>
        /\ Filtered(history) = history
        /\ Filtered(Filtered(history)) = history

\* A filtered history that lost rows, kept some, and loses none to the next
\* application.
C5_Witness ==
    /\ pc = "filter"
    /\ num_applied >= 1
    /\ num_removed > 0
    /\ history # {}
    /\ Cardinality(Filtered(history)) = Cardinality(history)

(***************************************************************************)
(* The synthetic embedding and its sampler.  Numbers are held exactly, in  *)
(* units of 1 / UnitsPerOne, so that cell_size = 10 / (grid_size - 1) and  *)
(* the floor 1e-3 are integers.  One student is followed.                  *)
(***************************************************************************)
grid_size == 3
num_assessment_interactions_per_step == 1
embedding_dimension == 2

num_assessments == grid_size * grid_size
\* Variant: two lessons for every cell of the grid.
num_lessons_TwoPerCell == 2 * grid_size * grid_size

num_lessons == 2 * grid_size * (grid_size - 1)
\* Variant: one slot for each lesson and one for the start.
num_lesson_interactions_per_student_NoSpare == 2 * (grid_size - 1) + 1

num_lesson_interactions_per_student == 2 * (grid_size - 1) + 2

UnitsPerOne == 1000 * (grid_size - 1)
cell_size == (10 * UnitsPerOne) \div (grid_size - 1)
EmbeddingFloor == UnitsPerOne \div 1000

Max(a, b) == IF a >= b THEN a ELSE b
Zero == [dim \in 1..embedding_dimension |-> 0]
VecAdd(u, v) == [dim \in 1..embedding_dimension |-> u[dim] + v[dim]]

\* The keys of lesson_idx_of_loc in the order the construction loop adds
\* them on a grid of size g, from grid cell c = g * i + j on.
RECURSIVE LessonKeysOfGrid(_, _)
LessonKeysOfGrid(g, c) ==
    IF c >= g * g THEN <<>>
    ELSE LET i == c \div g
             j == c % g
         IN  (IF j < g - 1 THEN << <<i, j, 0, 1>> >> ELSE <<>>)
             \o (IF i < g - 1 THEN << <<i, j, 1, 0>> >> ELSE <<>>)
             \o LessonKeysOfGrid(g, c + 1)

LessonKeysFrom(c) == LessonKeysOfGrid(grid_size, c)

LessonKeys == LessonKeysFrom(0)

lesson_idx_of_loc ==
    [key \in { LessonKeys[k] : k \in 1..Len(LessonKeys) } |->
        (CHOOSE k \in 1..Len(LessonKeys) : LessonKeys[k] = key) - 1]

assessment_idx_of_loc ==
    [loc \in (0..(grid_size - 1)) \X (0..(grid_size - 1)) |->
        grid_size * loc[1] + loc[2]]

\* The inverse maps the sampler reads; no cell of the notebook defines them.
lesson_loc_of_idx == [l \in 0..(Len(LessonKeys) - 1) |-> LessonKeys[l + 1]]
assessment_loc_of_idx ==
    [a \in 0..(num_assessments - 1) |-> <<a \div grid_size, a % grid_size>>]

\* The arrays after A *= cell_size, Q *= cell_size, L *= cell_size and the
\* np.maximum(1e-3, .) of A and Q.
A_NoFloor ==
    [a \in 0..(num_assessments - 1) |->
        [dim \in 1..embedding_dimension |-> assessment_loc_of_idx[a][dim] * cell_size]]

A ==
    [a \in 0..(num_assessments - 1) |->
        [dim \in 1..embedding_dimension |->
            Max(EmbeddingFloor, assessment_loc_of_idx[a][dim] * cell_size)]]
\* Variant of L: the gain of a lesson goes to the other dimension.
L_OtherDimension ==
    [l \in 0..(Len(LessonKeys) - 1) |->
        [dim \in 1..embedding_dimension |-> LessonKeys[l + 1][5 - dim] * cell_size]]

L ==
    [l \in 0..(Len(LessonKeys) - 1) |->
        [dim \in 1..embedding_dimension |-> LessonKeys[l + 1][dim + 2] * cell_size]]
Q ==
    [l \in 0..(Len(LessonKeys) - 1) |->
        [dim \in 1..embedding_dimension |->
            Max(EmbeddingFloor, LessonKeys[l + 1][dim] * cell_size)]]

\* str(z) of a one-digit number, and '-'.join(str(z) for z in loc).
Digits == <<"0", "1", "2", "3", "4", "5", "6", "7", "8", "9">>
RECURSIVE id_of_loc(_)
id_of_loc(loc) ==
    IF Len(loc) = 0 THEN <<>>
    ELSE IF Len(loc) = 1 THEN <<Digits[loc[1] + 1]>>
    ELSE <<Digits[loc[1] + 1], "-">> \o id_of_loc(Tail(loc))

\* Variant: every step is drawn on its own, so the two directions need not
\* be balanced.
Shuffles_Unbalanced ==
    [1..(2 * (grid_size - 1)) -> { <<0, 1>>, <<1, 0>> }]

\* The orders random.shuffle can leave the steps in.
Shuffles ==
    { sh \in [1..(2 * (grid_size - 1)) -> { <<0, 1>>, <<1, 0>> }] :
        Cardinality({ k \in DOMAIN sh : sh[k] = <<0, 1>> }) = grid_size - 1 }

\* (assessment_idx, outcome) drawn for one sampled assessment interaction:
\* the two ends of random.randint(0, num_assessments - 1), both outcomes.
AssessmentDraws == { <<0, TRUE>>, <<num_assessments - 1, FALSE>> }

SynthRow(sid, mid, ty, ts, o) ==
    [student_id |-> sid, module_id |-> mid, module_type |-> ty,
     timestep |-> ts, outcome |-> o]

\* S[student_idx, :, t] + L[lesson_idx, :]
SkillUpdate_Overwrite(prev, lesson_idx) == L[lesson_idx]

SkillUpdate(prev, lesson_idx) == VecAdd(prev, L[lesson_idx])

InitIdleParse ==
    /\ parser = "none"
    /\ raw = <<>>
    /\ student_timesteps = <<>>
    /\ timesteps = <<>>

InitSynth ==
    /\ pc = "student"
    /\ data = <<>>
    /\ S = [u \in 0..(num_lesson_interactions_per_student - 1) |-> Zero]
    /\ steps = <<>>
    /\ step_pos = 0
    /\ x = 0
    /\ y = 0
    /\ t = 0
    /\ num_assessed = 0
    /\ history = {}
    /\ log = <<>>
    /\ InitIdleParse
    /\ InitIdleFilter
    /\ InitIdleFit
    /\ InitIdleIrt
    /\ InitIdleIdx
    /\ InitIdleEval
    /\ InitIdleEst
    /\ InitIdleTable

\* The head of the body of `for student_idx in range(num_students)`: the
\* steps are shuffled and the assessment at the origin is sampled.
StartStudent ==
    /\ pc = "student"
    /\ \E sh \in Shuffles, outcome \in BOOLEAN :
          /\ steps' = sh
          /\ data' = Append(data,
                 SynthRow("S0", id_of_loc(assessment_loc_of_idx[assessment_idx_of_loc[<<0, 0>>]]),
                          AssessmentInteraction_MODULETYPE, 1, Some(outcome)))
    /\ x' = 0
    /\ y' = 0
    /\ t' = 1
    /\ step_pos' = 0
    /\ pc' = "steps"
    /\ UNCHANGED <<tableVars, estVars, evalVars, idxVars, irtVars, parser, raw, student_timesteps, timesteps, history, log,
                   filterVars, S, num_assessed, fitVars>>

\* One iteration of `for i, j in steps` up to t += 1.
ConsumeLesson ==
    /\ pc = "steps"
    /\ step_pos < Len(steps)
    /\ LET i == steps[step_pos + 1][1]
           j == steps[step_pos + 1][2]
           key == <<x, y, i, j>>
       IN  IF key \notin DOMAIN lesson_idx_of_loc
           THEN /\ pc' = "KeyError"
                /\ UNCHANGED <<data, x, y, S, t, num_assessed, step_pos>>
           ELSE LET lesson_idx == lesson_idx_of_loc[key]
                    row == SynthRow("S0", id_of_loc(lesson_loc_of_idx[lesson_idx]),
                                    LessonInteraction_MODULETYPE, t, None)
                IN  /\ data' = Append(data, row)
                    /\ x' = x + i
                    /\ y' = y + j
                    /\ IF t + 1 \notin DOMAIN S
                       THEN /\ pc' = "IndexError"
                            /\ UNCHANGED <<S, t, num_assessed, step_pos>>
                       ELSE /\ S' = [S EXCEPT ![t + 1] = SkillUpdate(S[t], lesson_idx)]
                            /\ t' = t + 1
                            /\ num_assessed' = 0
                            /\ step_pos' = step_pos + 1
                            /\ pc' = "assess"
    /\ UNCHANGED <<tableVars, estVars, evalVars, idxVars, irtVars, parser, raw, student_timesteps, timesteps, history, log,
                   filterVars, steps, fitVars>>

\* One iteration of `for _ in range(num_assessment_interactions_per_step)`.
SampleAssessment ==
    /\ pc = "assess"
    /\ num_assessed < num_assessment_interactions_per_step
    /\ \E draw \in AssessmentDraws :
          data' = Append(data,
              SynthRow("S0", id_of_loc(assessment_loc_of_idx[draw[1]]),
                       AssessmentInteraction_MODULETYPE, t, Some(draw[2])))
    /\ num_assessed' = num_assessed + 1
    /\ pc' = IF num_assessed + 1 = num_assessment_interactions_per_step
             THEN "steps" ELSE "assess"
    /\ UNCHANGED <<tableVars, estVars, evalVars, idxVars, irtVars, parser, raw, student_timesteps, timesteps, history, log,
                   filterVars, steps, step_pos, x, y, t, S, fitVars>>

\* {id_of_loc(loc): idx for idx, loc in loc_of_idx.items()}
IdxMapOf(loc_of_idx) ==
    [mid \in { id_of_loc(loc_of_idx[k]) : k \in DOMAIN loc_of_idx } |->
        CHOOSE k \in DOMAIN loc_of_idx : id_of_loc(loc_of_idx[k]) = mid]

assessment_idx_map == IdxMapOf(assessment_loc_of_idx)
lesson_idx_map == IdxMapOf(lesson_loc_of_idx)

\* history = datatools.InteractionHistory(pd.DataFrame(data)) and
\* history.compute_idx_maps(assessment_idx=assessment_idx_map, lesson_idx=lesson_idx_map)
BuildSynthHistory ==
    /\ pc = "steps"
    /\ step_pos = Len(steps)
    /\ LET rows == { [index |-> k - 1, student_id |-> data[k].student_id,
                      module_id |-> data[k].module_id,
                      module_type |-> data[k].module_type,
                      timestep |-> data[k].timestep, outcome |-> data[k].outcome] :
                        k \in 1..Len(data) }
           maps == compute_idx_maps(rows, Some(assessment_idx_map), Some(lesson_idx_map))
       IN  /\ history' = InteractionHistory(rows, FALSE)
           /\ idx_of_student_id' = maps.idx_of_student_id
           /\ id_of_student_idx' = maps.id_of_student_idx
           /\ idx_of_assessment_id' = maps.idx_of_assessment_id
           /\ id_of_assessment_idx' = maps.id_of_assessment_idx
           /\ idx_of_lesson_id' = maps.idx_of_lesson_id
           /\ id_of_lesson_idx' = maps.id_of_lesson_idx
    /\ pc' = "synth_built"
    /\ UNCHANGED <<tableVars, estVars, evalVars, irtVars, parser, raw, data, student_timesteps, timesteps, log,
                   filterVars, synthVars, fitVars>>

NextSynth == StartStudent \/ ConsumeLesson \/ SampleAssessment \/ BuildSynthHistory

SpecSynth == InitSynth /\ [][NextSynth]_vars

\* The index of the lesson a lesson row names.
LessonIdxOfId(mid) == lesson_idx_map[mid]

LessonPositions ==
    { k \in 1..Len(data) : data[k].module_type = LessonInteraction_MODULETYPE }

\* C8: the skill trajectory starts from the zero vector, and for every lesson
\* consumed at a timestep u the state at u + 1 is the state at u plus the
\* embedding of that lesson and nothing else, after every step of the
\* sampler and for every order of the steps; every timestep before the
\* current one has its lesson and the states after it are still untouched.
C8_SkillTransitionAdditive ==
    pc \in {"steps", "assess", "synth_built"} =>
        /\ S[0] = Zero
        /\ S[1] = Zero
        /\ \A k \in LessonPositions :
              S[data[k].timestep + 1] =
                  VecAdd(S[data[k].timestep], L[LessonIdxOfId(data[k].module_id)])
        /\ \A u \in 1..(t - 1) : \E k \in LessonPositions : data[k].timestep = u
        /\ \A k \in LessonPositions : data[k].timestep \in 1..(t - 1)
        /\ \A u \in DOMAIN S : u > t => S[u] = Zero

\* All lessons of a walk that began with a step in the first dimension are
\* consumed and the skill state has moved in both dimensions.
C8_Witness ==
    /\ pc = "synth_built"
    /\ steps[1] = <<1, 0>>
    /\ Cardinality(LessonPositions) = 2 * (grid_size - 1)
    /\ S[t][1] > 0
    /\ S[t][2] > 0

\* The square of np.linalg.norm(v), the divisor of pass_likelihood.
NormSquared(v) == v[1] * v[1] + v[2] * v[2]

\* The index of the assessment an assessment row names.
AssessmentIdxOfId(mid) == assessment_idx_map[mid]

AssessmentPositions ==
    { k \in 1..Len(data) : data[k].module_type = AssessmentInteraction_MODULETYPE }

\* C11: after the construction every component of every assessment embedding
\* A[a] (the one at the grid origin included) and of every prerequisite
\* embedding Q[l] is at least the floor 1e-3, and the norm by which each
\* pass likelihood computed so far was divided is strictly positive.
C11_EmbeddingNormsPositive ==
    /\ EmbeddingFloor > 0
    /\ \A a \in DOMAIN A : \A dim \in 1..embedding_dimension :
          A[a][dim] >= EmbeddingFloor
    /\ \A l \in DOMAIN Q : \A dim \in 1..embedding_dimension :
          Q[l][dim] >= EmbeddingFloor
    /\ \A k \in AssessmentPositions :
          NormSquared(A[AssessmentIdxOfId(data[k].module_id)]) > 0

\* The sampler has computed pass likelihoods for the assessment at the grid
\* origin, whose raw embedding is the zero vector, and for the one at the far
\* corner.
C11_Witness ==
    /\ pc = "synth_built"
    /\ assessment_loc_of_idx[0] = <<0, 0>>
    /\ A[0] = [dim \in 1..embedding_dimension |-> EmbeddingFloor]
    /\ Cardinality({ k \in AssessmentPositions :
                        AssessmentIdxOfId(data[k].module_id) = 0 }) >= 2
    /\ \E k \in AssessmentPositions :
          AssessmentIdxOfId(data[k].module_id) = num_assessments - 1

(***************************************************************************)
(* The model builders, called once per fold of a cross-validated           *)
(* evaluation; the calls of the folds run in parallel.                     *)
(***************************************************************************)
NumFolds == 3
Folds == 1..NumFolds
Builders == {"embedding", "mirt"}

\* The estimator object a call of the builder fits with: the one
\* meta_build_embedding made (0), or the one build_mirt_model makes itself.
EstimatorOf(f) == IF builder = "embedding" THEN 0 ELSE f

\* est.EmbeddingMAPEstimator(...) in meta_build_embedding: one estimator, made
\* once, captured by the returned lambda; no history is passed to it.
NewEmbeddingEstimator == [filtered_history |-> None, split_history |-> None]

InitFit ==
    /\ builder \in Builders
    /\ \E with_split \in [Folds -> BOOLEAN] :
          call_args = [f \in Folds |->
              [filtered_history |-> f,
               split_history |-> IF with_split[f] THEN Some(f) ELSE None]]
    /\ estimators = IF builder = "embedding" THEN (0 :> NewEmbeddingEstimator) ELSE <<>>
    /\ fit_pc = [f \in Folds |-> "call"]
    /\ trained_on = [f \in Folds |-> None]
    /\ pc = "fits"
    /\ data = <<>>
    /\ history = {}
    /\ log = <<>>
    /\ InitIdleParse
    /\ InitIdleFilter
    /\ InitIdleSynth
    /\ InitIdleIrt
    /\ InitIdleIdx
    /\ InitIdleEval
    /\ InitIdleEst
    /\ InitIdleTable

\* build_embedding: model = models.EmbeddingModel(history, **embedding_kwargs)
CreateEmbeddingModel(f) ==
    /\ builder = "embedding"
    /\ fit_pc[f] = "call"
    /\ fit_pc' = [fit_pc EXCEPT ![f] = "set_filtered_history"]
    /\ UNCHANGED <<tableVars, estVars, evalVars, idxVars, irtVars, parseVars, history, log, filterVars, synthVars,
                   call_args, builder, estimators, trained_on>>

\* build_embedding: estimator.filtered_history = filtered_history
SetFilteredHistory(f) ==
    /\ fit_pc[f] = "set_filtered_history"
    /\ estimators' = [estimators EXCEPT ![EstimatorOf(f)].filtered_history =
                          Some(call_args[f].filtered_history)]
    /\ fit_pc' = [fit_pc EXCEPT ![f] = "set_split_history"]
    /\ UNCHANGED <<tableVars, estVars, evalVars, idxVars, irtVars, parseVars, history, log, filterVars, synthVars,
                   call_args, builder, trained_on>>

\* build_embedding: if split_history is not None: estimator.split_history = split_history
SetSplitHistory(f) ==
    /\ fit_pc[f] = "set_split_history"
    /\ estimators' =
          IF call_args[f].split_history # None
          THEN [estimators EXCEPT ![EstimatorOf(f)].split_history = call_args[f].split_history]
          ELSE estimators
    /\ fit_pc' = [fit_pc EXCEPT ![f] = "fit"]
    /\ UNCHANGED <<tableVars, estVars, evalVars, idxVars, irtVars, parseVars, history, log, filterVars, synthVars,
                   call_args, builder, trained_on>>

\* build_mirt_model: the model and an estimator of its own, made from the
\* arguments of the call.
CreateMirtEstimator(f) ==
    /\ builder = "mirt"
    /\ fit_pc[f] = "call"
    /\ estimators' = estimators @@
          (f :> [filtered_history |-> Some(call_args[f].filtered_history),
                 split_history |-> call_args[f].split_history])
    /\ fit_pc' = [fit_pc EXCEPT ![f] = "fit"]
    /\ UNCHANGED <<tableVars, estVars, evalVars, idxVars, irtVars, parseVars, history, log, filterVars, synthVars,
                   call_args, builder, trained_on>>

\* model.fit(estimator): the fit reads the histories the estimator holds.
FitModel(f) ==
    /\ fit_pc[f] = "fit"
    /\ trained_on' = [trained_on EXCEPT ![f] = Some(estimators[EstimatorOf(f)])]
    /\ fit_pc' = [fit_pc EXCEPT ![f] = "done"]
    /\ UNCHANGED <<tableVars, estVars, evalVars, idxVars, irtVars, parseVars, history, log, filterVars, synthVars,
                   call_args, builder, estimators>>

NextParallelFit ==
    \E f \in Folds :
        \/ CreateEmbeddingModel(f)
        \/ SetFilteredHistory(f)
        \/ SetSplitHistory(f)
        \/ CreateMirtEstimator(f)
        \/ FitModel(f)

SpecParallelFit == InitFit /\ [][NextParallelFit]_vars

\* The calls of one builder made one after the other, in any order of the
\* folds: a call begins only when no other call is under way.
NoOtherCallRunning(f) ==
    \A g \in Folds \ {f} : fit_pc[g] \in {"call", "done"}

NextSequentialFit ==
    \E f \in Folds :
        \/ NoOtherCallRunning(f) /\ CreateEmbeddingModel(f)
        \/ NoOtherCallRunning(f) /\ SetFilteredHistory(f)
        \/ NoOtherCallRunning(f) /\ SetSplitHistory(f)
        \/ NoOtherCallRunning(f) /\ CreateMirtEstimator(f)
        \/ NoOtherCallRunning(f) /\ FitModel(f)

SpecSequentialFit == InitFit /\ [][NextSequentialFit]_vars

\* C9: whatever the interleaving of the builder calls of the folds, every
\* fit trains on the training view of its own fold, and on the split history
\* of its own call.
C9_EachFitTrainsOnOwnFold ==
    \A f \in Folds :
        fit_pc[f] = "done" =>
            /\ Val(trained_on[f]).filtered_history = Some(call_args[f].filtered_history)
            /\ Val(trained_on[f]).split_history = call_args[f].split_history

\* The same for the builder that makes an estimator per call.
MirtFitsTrainOnOwnFold == builder = "mirt" => C9_EachFitTrainsOnOwnFold

(***************************************************************************)
(* The synthetic 1PL/2PL IRT model and the cell that samples an            *)
(* interaction history from it.  Parameters are integers; probabilities    *)
(* are held in thousandths.                                                *)
(***************************************************************************)
num_ixns_per_student == 1

\* range(num_students) and list(range(num_assessments))
student_idxes == {0, 1}
assessment_idxes == {0, 1}

\* Values a draw of np.random.normal(0, 1) is taken from.
NormalDraws == {-1, 0, 1}

\* Values of np.random.random(), in thousandths.
RandomDraws == {0, 200, 600, 999}

\* str(n) of a natural number and int(s) of a string of digits.
RECURSIVE str(_)
str(n) == IF n < 10 THEN <<Digits[n + 1]>>
          ELSE str(n \div 10) \o <<Digits[(n % 10) + 1]>>

DigitValue(c) == (CHOOSE k \in 1..10 : Digits[k] = c) - 1

RECURSIVE int(_)
int(s) == IF Len(s) = 1 THEN DigitValue(s[1])
          ELSE 10 * int(SubSeq(s, 1, Len(s) - 1)) + DigitValue(s[Len(s)])

student_ids == [n \in student_idxes |-> <<"S">> \o str(n)]
assessment_ids == [n \in assessment_idxes |-> <<"A">> \o str(n)]

\* 1000 / (1 + math.exp(-z)) rounded, for z in -4..4.
SigmoidTable == <<18, 47, 119, 269, 500, 731, 881, 953, 982>>
Sigmoid(z) == SigmoidTable[z + 5]

\* The logit the spec gives for the 1PL/2PL model.
Logit_MinusDifficulty(s, a) ==
    discriminabilities[a] * proficiencies[s] - difficulties[a]

\* discriminabilities[module_idx]*proficiencies[student_idx] + difficulties[module_idx]
Logit(s, a) ==
    discriminabilities[a] * proficiencies[s] + difficulties[a]

PassLikelihood(s, a) == Sigmoid(Logit(s, a))

InitIRT ==
    /\ pc = "irt_sample"
    /\ USING_2PL \in BOOLEAN
    /\ proficiencies \in [student_idxes -> NormalDraws]
    /\ difficulties \in [assessment_idxes -> NormalDraws]
    /\ discriminabilities \in [assessment_idxes -> NormalDraws]
    /\ ~USING_2PL => discriminabilities = [a \in assessment_idxes |-> 1]
    /\ ixns = [k \in 0..(Cardinality(student_idxes) * num_ixns_per_student - 1) |-> None]
    /\ student_idx = 0
    /\ t = 0
    /\ module_idx = 0
    /\ pass_likelihood = 0
    /\ data = <<>>
    /\ history = {}
    /\ log = <<>>
    /\ InitIdleParse
    /\ InitIdleFilter
    /\ steps = <<>>
    /\ step_pos = 0
    /\ x = 0
    /\ y = 0
    /\ S = <<>>
    /\ num_assessed = 0
    /\ InitIdleFit
    /\ InitIdleIdx
    /\ InitIdleEval
    /\ InitIdleEst
    /\ InitIdleTable

\* One iteration of `for t in range(num_ixns_per_student)` for the current
\* student; the outer loop moves on after the last one.
SampleInteraction ==
    /\ pc = "irt_sample"
    /\ student_idx \in student_idxes
    /\ \E m \in assessment_idxes, u \in RandomDraws :
          LET p == PassLikelihood(student_idx, m)
          IN  /\ module_idx' = m
              /\ pass_likelihood' = p
              /\ ixns' = [ixns EXCEPT ![student_idx * num_ixns_per_student + t] =
                    Some([student_id |-> student_ids[student_idx],
                          module_id |-> assessment_ids[m],
                          module_type |-> AssessmentInteraction_MODULETYPE,
                          outcome |-> Some(u < p),
                          timestep |-> t + 1])]
    /\ IF t + 1 < num_ixns_per_student
       THEN /\ t' = t + 1
            /\ student_idx' = student_idx
       ELSE /\ t' = 0
            /\ student_idx' = student_idx + 1
    /\ UNCHANGED <<tableVars, estVars, evalVars, idxVars, parser, raw, pc, data, student_timesteps, timesteps, history,
                   log, filterVars, steps, step_pos, x, y, S, num_assessed,
                   fitVars, USING_2PL, proficiencies, difficulties,
                   discriminabilities>>

\* lambda x: int(x[1:]), on the ids of a list of ids
NumericSuffix(ids) ==
    [id \in { ids[k] : k \in DOMAIN ids } |-> int(Tail(id))]

\* history = datatools.InteractionHistory(pd.DataFrame(ixns))
\* history.idx_of_student_id = lambda x: int(x[1:])
\* history.idx_of_assessment_id = lambda x: int(x[1:])
BuildIrtHistory ==
    /\ pc = "irt_sample"
    /\ student_idx \notin student_idxes
    /\ LET rows == { [index |-> k, student_id |-> Val(ixns[k]).student_id,
                      module_id |-> Val(ixns[k]).module_id,
                      module_type |-> Val(ixns[k]).module_type,
                      timestep |-> Val(ixns[k]).timestep,
                      outcome |-> Val(ixns[k]).outcome] : k \in DOMAIN ixns }
           maps == compute_idx_maps(rows, None, None)
       IN  /\ history' = InteractionHistory(rows, FALSE)
           /\ idx_of_student_id' = NumericSuffix(student_ids)
           /\ id_of_student_idx' = maps.id_of_student_idx
           /\ idx_of_assessment_id' = NumericSuffix(assessment_ids)
           /\ id_of_assessment_idx' = maps.id_of_assessment_idx
           /\ idx_of_lesson_id' = maps.idx_of_lesson_id
           /\ id_of_lesson_idx' = maps.id_of_lesson_idx
    /\ pc' = "irt_built"
    /\ UNCHANGED <<tableVars, estVars, evalVars, parser, raw, data, student_timesteps, timesteps, log,
                   filterVars, synthVars, fitVars, irtVars>>

NextIRT == SampleInteraction \/ BuildIrtHistory

SpecIRT == InitIRT /\ [][NextIRT]_vars

\* The interactions sampled so far.
SampledIxns == { k \in DOMAIN ixns : ~IsNone(ixns[k]) }

\* C12: every pass likelihood of the sampler is the sigmoid of
\* discriminability * proficiency - difficulty, and for one student and
\* equal discriminabilities an assessment of larger difficulty never has
\* the larger pass likelihood.
C12_LogitIsProficiencyMinusDifficulty ==
    SampledIxns # {} =>
        LET s == IF t = 0 THEN student_idx - 1 ELSE student_idx
        IN  /\ pass_likelihood = Sigmoid(Logit_MinusDifficulty(s, module_idx))
            /\ \A a \in assessment_idxes :
                  (/\ discriminabilities[a] = discriminabilities[module_idx]
                   /\ difficulties[a] > difficulties[module_idx])
                  => PassLikelihood(s, a) <= pass_likelihood

\* The ids of one kind that appear in the history.
StudentIdsOf(rows) == { r.student_id : r \in rows }
AssessmentIdsOf(rows) == { r.module_id : r \in AssessmentRows(rows) }
LessonIdsOf(rows) == { r.module_id : r \in LessonRows(rows) }

\* idx_of and id_of are inverse to each other on a dense zero-based range of
\* indexes and on every id that appears.
BijectiveIdxMaps(idx_of, id_of, ids) ==
    /\ DOMAIN id_of = 0..(Cardinality(DOMAIN id_of) - 1)
    /\ \A i \in DOMAIN id_of :
          id_of[i] \in DOMAIN idx_of /\ idx_of[id_of[i]] = i
    /\ \A id \in ids :
          /\ id \in DOMAIN idx_of
          /\ idx_of[id] \in DOMAIN id_of
          /\ id_of[idx_of[id]] = id

\* C13: the id <-> index maps of a built history, the ones the notebook
\* installs included, are inverse bijections between the ids that appear and
\* a dense zero-based range of indexes, for students, assessments and
\* lessons.
C13_IdxMapsBijective ==
    pc \in {"irt_built", "synth_built"} =>
        /\ BijectiveIdxMaps(idx_of_student_id, id_of_student_idx, StudentIdsOf(history))
        /\ BijectiveIdxMaps(idx_of_assessment_id, id_of_assessment_idx,
                            AssessmentIdsOf(history))
        /\ BijectiveIdxMaps(idx_of_lesson_id, id_of_lesson_idx, LessonIdsOf(history))

\* The maps of students round-trip in both notebooks.
StudentIdxMapsBijective ==
    pc \in {"irt_built", "synth_built"} =>
        BijectiveIdxMaps(idx_of_student_id, id_of_student_idx, StudentIdsOf(history))

(***************************************************************************)
(* The evaluation workflow: a family of model builders is defined, all of  *)
(* them are cross-validated in one call, the results are dumped to a file, *)
(* loaded or merged with the current results, and models are compared.     *)
(***************************************************************************)
MaxRuns == 2

\* The students of the evaluated history, in the order of their indexes.
CVStudents == <<"s1", "s2", "s3">>

Baselines == {"1PL IRT", "2PL IRT"}

\* model_builders = {...} of the baselines cell.
BaselineModelBuilders ==
    "0PL IRT (students)" :> "build_student_biased_coin_model" @@
    "0PL IRT (assessments)" :> "build_assessment_biased_coin_model" @@
    "1PL IRT" :> "build_1pl_irt_model" @@
    "2PL IRT" :> "build_2pl_irt_model"

\* model_builders = {...} of the lesion analysis cell, with one of the
\* embedding models it adds.
LesionModelBuilders ==
    "0PL IRT (assessments)" :> "build_student_biased_coin_model" @@
    "0PL IRT (students)" :> "build_assessment_biased_coin_model" @@
    "1PL IRT" :> "build_1pl_irt_model" @@
    "2PL IRT" :> "build_2pl_irt_model" @@
    "2D MIRT" :> "meta_build_mirt_model" @@
    "d=2, without prereqs, with bias" :> "meta_build_embedding"

\* model_builders = {...} of the MIRT sweep cell, with one model of the sweep.
MirtModelBuilders ==
    "0PL IRT (assessments)" :> "build_student_biased_coin_model" @@
    "0PL IRT (students)" :> "build_assessment_biased_coin_model" @@
    "1PL IRT" :> "build_1pl_irt_model" @@
    "2PL IRT" :> "build_2pl_irt_model" @@
    "1D MIRT, with regularization_constant=0.1" :> "meta_build_mirt_model"

\* The dicts the model_builders cells can leave behind.
ModelFamilies ==
    { BaselineModelBuilders, LesionModelBuilders, MirtModelBuilders }

\* The cells of the session that compares the baselines with the lesioned
\* embedding models.
LesionSessionFamilies == { BaselineModelBuilders, LesionModelBuilders }

ShuffleOrders(n) ==
    { f \in [1..n -> 1..n] : \A i, j \in 1..n : f[i] = f[j] => i = j }

\* Sizes of the folds of a k-fold split of n samples: the first n % k folds
\* hold one sample more.
FoldSize(n, k, f) == (n \div k) + (IF f <= n % k THEN 1 ELSE 0)

RECURSIVE FoldStart(_, _, _)
FoldStart(n, k, f) == IF f = 1 THEN 0 ELSE FoldStart(n, k, f - 1) + FoldSize(n, k, f - 1)

\* The held-out students of every fold for one shuffling order: an
\* overlapping split that repeats the first student in every fold.
HeldOutStudents_Overlapping(ids, k, order) ==
    [f \in 1..k |-> { ids[order[1]] } \cup
        { ids[order[pos]] :
            pos \in (FoldStart(Len(ids), k, f) + 1)..
                    (FoldStart(Len(ids), k, f) + FoldSize(Len(ids), k, f)) }]

HeldOutStudents(ids, k, order) ==
    [f \in 1..k |->
        { ids[order[pos]] :
            pos \in (FoldStart(Len(ids), k, f) + 1)..
                    (FoldStart(Len(ids), k, f) + FoldSize(Len(ids), k, f)) }]

\* The training and validation views of one fold: whole students.
FoldViews(rows, held_out) ==
    [train |-> { r \in rows : r.student_id \notin held_out },
     validation |-> { r \in rows : r.student_id \in held_out }]

\* evaluate.cross_validated_auc(model_builders, history, num_folds, ...):
\* every named builder is evaluated on the same folds.
cross_validated_auc(builders, rows, k, order) ==
    [name \in builders |->
        [f \in 1..k |-> FoldViews(rows, HeldOutStudents(CVStudents, k, order)[f])]]

\* results.merge(other): the per-model results of other are added.
merge(mine, other) ==
    [name \in (DOMAIN mine) \cup (DOMAIN other) |->
        IF name \in DOMAIN other THEN other[name] ELSE mine[name]]

\* A history of two interactions per student.
EvalHistory ==
    { [index |-> 2 * (k - 1) + u, student_id |-> CVStudents[k], module_id |-> "m1",
       module_type |-> AssessmentInteraction_MODULETYPE, timestep |-> u,
       outcome |-> Some(u = 1)] : k \in 1..Len(CVStudents), u \in 1..2 }

InitEval ==
    /\ pc = "eval"
    /\ history = EvalHistory
    /\ num_folds \in 2..Len(CVStudents)
    /\ model_builders = <<>>
    /\ results = <<>>
    /\ results_file = None
    /\ cv_runs = 0
    /\ compared = None
    /\ data = <<>>
    /\ log = <<>>
    /\ InitIdleParse
    /\ InitIdleFilter
    /\ InitIdleSynth
    /\ InitIdleFit
    /\ InitIdleIrt
    /\ InitIdleIdx
    /\ InitIdleEst
    /\ InitIdleTable

\* One of the cells that fill model_builders.
DefineModelBuilders(cells) ==
    /\ pc = "eval"
    /\ \E family \in cells : model_builders' = family
    /\ UNCHANGED <<tableVars, estVars, parseVars, history, log, filterVars, synthVars, fitVars, irtVars,
                   idxVars, num_folds, results, results_file, cv_runs, compared>>

\* results = evaluate.cross_validated_auc(model_builders, history, num_folds=..., ...)
CrossValidate ==
    /\ pc = "eval"
    /\ model_builders # <<>>
    /\ cv_runs < MaxRuns
    /\ \E order \in ShuffleOrders(Len(CVStudents)) :
          results' = cross_validated_auc(DOMAIN model_builders, history, num_folds, order)
    /\ cv_runs' = cv_runs + 1
    /\ UNCHANGED <<tableVars, estVars, parseVars, history, log, filterVars, synthVars, fitVars, irtVars,
                   idxVars, model_builders, num_folds, results_file, compared>>

\* pickle.dump(results, f, pickle.HIGHEST_PROTOCOL)
DumpResults ==
    /\ pc = "eval"
    /\ cv_runs > 0
    /\ results_file' = Some(results)
    /\ UNCHANGED <<tableVars, estVars, parseVars, history, log, filterVars, synthVars, fitVars, irtVars,
                   idxVars, model_builders, num_folds, results, cv_runs, compared>>

\* results = pickle.load(f)
LoadResults ==
    /\ pc = "eval"
    /\ ~IsNone(results_file)
    /\ results' = Val(results_file)
    /\ UNCHANGED <<tableVars, estVars, parseVars, history, log, filterVars, synthVars, fitVars, irtVars,
                   idxVars, model_builders, num_folds, results_file, cv_runs, compared>>

\* results = results.merge(pickle.load(f))
MergeResults ==
    /\ pc = "eval"
    /\ cv_runs > 0
    /\ ~IsNone(results_file)
    /\ results' = merge(results, Val(results_file))
    /\ UNCHANGED <<tableVars, estVars, parseVars, history, log, filterVars, synthVars, fitVars, irtVars,
                   idxVars, model_builders, num_folds, results_file, cv_runs, compared>>

\* One results.compare_validation_aucs(k, baseline) of the loop over the
\* baselines and over results.raw_results.
CompareModels ==
    /\ pc = "eval"
    /\ \E baseline \in Baselines, k \in DOMAIN results :
          /\ k # baseline
          /\ baseline \in DOMAIN results
          /\ compared' = Some([a |-> k, b |-> baseline,
                               folds_a |-> results[k], folds_b |-> results[baseline]])
    /\ UNCHANGED <<tableVars, estVars, parseVars, history, log, filterVars, synthVars, fitVars, irtVars,
                   idxVars, model_builders, num_folds, results, results_file, cv_runs>>

NextEval ==
    \/ DefineModelBuilders(LesionSessionFamilies)
    \/ CrossValidate
    \/ DumpResults
    \/ LoadResults
    \/ MergeResults
    \/ CompareModels

SpecEval == InitEval /\ [][NextEval]_vars

\* Any of the model_builders cells, followed by cross_validated_auc.
NextModelBuilders ==
    \/ DefineModelBuilders(ModelFamilies)
    \/ CrossValidate

SpecModelBuilders == InitEval /\ [][NextModelBuilders]_vars

\* C14: whenever two models are compared, their per-fold results come from
\* the same folds: as many folds, and the same held-out students in each.
C14_ComparedOnSameFolds ==
    ~IsNone(compared) =>
        LET c == Val(compared)
        IN  /\ DOMAIN c.folds_a = DOMAIN c.folds_b
            /\ \A f \in DOMAIN c.folds_a :
                  StudentsOf(c.folds_a[f].validation) = StudentsOf(c.folds_b[f].validation)

\* Models evaluated by one call of cross_validated_auc are on the same folds.
SameCallSameFolds ==
    (cv_runs = 1 /\ ~IsNone(compared)) =>
        Val(compared).folds_a = Val(compared).folds_b

\* The per-fold results some cross_validated_auc call produced.
FoldResults == { results[name] : name \in DOMAIN results }

\* C15: cross_validated_auc holds every student out in exactly one of its
\* num_folds folds: the held-out sets are pairwise disjoint and their union
\* is the full student set; and a fold never splits a student's sequence:
\* all interactions of a student are in the training view or all in the
\* validation view.  For every num_folds in 2..num_students.
C15_FoldsPartitionStudents ==
    \A folds \in FoldResults :
        /\ DOMAIN folds = 1..num_folds
        /\ \A s \in StudentsOf(history) :
              Cardinality({ f \in DOMAIN folds :
                              s \in StudentsOf(folds[f].validation) }) = 1
        /\ \A f \in DOMAIN folds :
              /\ StudentsOf(folds[f].validation) \subseteq StudentsOf(history)
              /\ folds[f].train \cup folds[f].validation = history
              /\ StudentsOf(folds[f].train) \cap StudentsOf(folds[f].validation) = {}

\* A call has split the students into fewer folds than students, so a held-out
\* set holds two students, and the results were dumped and merged.
C15_Witness ==
    /\ cv_runs = MaxRuns
    /\ num_folds < Len(CVStudents)
    /\ ~IsNone(results_file)
    /\ Cardinality(DOMAIN results) > Cardinality(DOMAIN model_builders)
    /\ \E folds \in FoldResults : \E f \in DOMAIN folds :
          Cardinality(StudentsOf(folds[f].validation)) = 2

(***************************************************************************)
(* One fit of the estimator a builder hands to model.fit.  Objective       *)
(* values are held in units of 1e-4; a non-finite value is None.           *)
(***************************************************************************)
max_iter == 3

\* ftol of the estimator and 'ftol' of gradient_descent_kwargs.
ftol == 1
gradient_descent_ftol == 10

\* Objective values an iterate can have.
LossValues == {0, 1, 5, 20, 40}

TerminalStatuses == {"CONVERGED", "MAX_ITER_REACHED", "FAILED"}

\* The function-value tolerance in force: the solver's with using_scipy, the
\* one of gradient_descent_kwargs otherwise.
Tolerance(scipy) == IF scipy THEN ftol ELSE gradient_descent_ftol

Abs(v) == IF v < 0 THEN -v ELSE v

ToleranceMet(scipy, before, after) == Abs(before - after) <= Tolerance(scipy)

\* The fit goes on only while it is optimizing.
Running_IgnoresOutcome(st) == st \in {"OPTIMIZING"} \cup TerminalStatuses

Running(st) == st = "OPTIMIZING"

\* The status after an iteration that produced a finite objective value.
StatusAfterIteration_CapIsConverged(scipy, before, after, done) ==
    IF ToleranceMet(scipy, before, after) \/ done >= max_iter THEN "CONVERGED"
    ELSE "OPTIMIZING"

StatusAfterIteration(scipy, before, after, done) ==
    IF ToleranceMet(scipy, before, after) THEN "CONVERGED"
    ELSE IF done >= max_iter THEN "MAX_ITER_REACHED"
    ELSE "OPTIMIZING"

\* The iteration counter after one more iteration.
CountIteration_Never(done) == done

CountIteration(done) == done + 1

\* estimator = est.EmbeddingMAPEstimator(...) of meta_build_embedding
InitEstimatorFit ==
    /\ pc = "estimator"
    /\ using_scipy \in BOOLEAN
    /\ status = "INITIALIZED"
    /\ iteration = 0
    /\ loss = None
    /\ prev_loss = None
    /\ data = <<>>
    /\ history = {}
    /\ log = <<>>
    /\ InitIdleParse
    /\ InitIdleFilter
    /\ InitIdleSynth
    /\ InitIdleFit
    /\ InitIdleIrt
    /\ InitIdleIdx
    /\ InitIdleEval
    /\ InitIdleTable

\* model.fit(estimator) begins: the objective of the initial parameters.
StartFit ==
    /\ pc = "estimator"
    /\ status = "INITIALIZED"
    /\ \E value \in LossValues \cup {-1} :
          loss' = IF value = -1 THEN None ELSE Some(value)
    /\ status' = "OPTIMIZING"
    /\ prev_loss' = None
    /\ iteration' = 0
    /\ pc' = "fitting"
    /\ UNCHANGED <<tableVars, parser, raw, data, student_timesteps, timesteps, history, log,
                   filterVars, synthVars, fitVars, irtVars, idxVars, evalVars,
                   using_scipy>>

\* One iteration of the optimizer: a non-finite objective fails the fit, a
\* change within the tolerance ends it, and so does the iteration cap.
Iterate ==
    /\ pc = "fitting"
    /\ Running(status)
    /\ \E value \in LossValues \cup {-1} :
          /\ prev_loss' = loss
          /\ loss' = IF value = -1 THEN None ELSE Some(value)
          /\ iteration' = CountIteration(iteration)
          /\ status' = IF value = -1 \/ IsNone(loss) THEN "FAILED"
                       ELSE StatusAfterIteration(using_scipy, Val(loss), value,
                                                 CountIteration(iteration))
    /\ UNCHANGED <<tableVars, parser, raw, pc, data, student_timesteps, timesteps, history, log,
                   filterVars, synthVars, fitVars, irtVars, idxVars, evalVars,
                   using_scipy>>

\* model.fit(estimator) is over and the builder returns the model.
ReturnModel ==
    /\ pc = "fitting"
    /\ status \in TerminalStatuses
    /\ pc' = "returned"
    /\ UNCHANGED <<tableVars, parser, raw, data, student_timesteps, timesteps, history, log,
                   filterVars, synthVars, fitVars, irtVars, idxVars, evalVars,
                   estVars>>

NextEstimatorFit == StartFit \/ Iterate \/ ReturnModel

SpecEstimatorFit == InitEstimatorFit /\ [][NextEstimatorFit]_vars

\* The optimizer keeps iterating and the call returns.
SpecEstimatorFitFair ==
    SpecEstimatorFit /\ WF_vars(StartFit) /\ WF_vars(Iterate) /\ WF_vars(ReturnModel)

StatusEdges ==
    { <<"INITIALIZED", "OPTIMIZING">> }
    \cup { <<"OPTIMIZING", st>> : st \in TerminalStatuses }

\* C16: the status of a fit changes only from INITIALIZED to OPTIMIZING and
\* from OPTIMIZING to CONVERGED, MAX_ITER_REACHED or FAILED; once it is one of
\* these three it never changes again, so a failed fit is not retried or
\* turned into another outcome.
C16_StatusMovesForward ==
    [][/\ status' # status => <<status, status'>> \in StatusEdges
       /\ status \in TerminalStatuses =>
             (status' = status /\ iteration' = iteration /\ loss' = loss)]_vars

\* A fit failed after two finite iterates and the builder call returned.
C16_Witness ==
    /\ pc = "returned"
    /\ status = "FAILED"
    /\ iteration >= 2
    /\ IsNone(loss)
    /\ ~IsNone(prev_loss)

\* C17: a fit reports CONVERGED only when the last change of the objective
\* was within the function-value tolerance, and a fit that reached the
\* iteration cap with a larger change reports MAX_ITER_REACHED.
C17_CapIsNotConvergence ==
    /\ status = "CONVERGED" =>
          /\ ~IsNone(loss) /\ ~IsNone(prev_loss)
          /\ Abs(Val(prev_loss) - Val(loss)) <=
                 (IF using_scipy THEN ftol ELSE gradient_descent_ftol)
    /\ (/\ status \in TerminalStatuses
        /\ iteration = max_iter
        /\ ~IsNone(loss) /\ ~IsNone(prev_loss)
        /\ Abs(Val(prev_loss) - Val(loss)) >
               (IF using_scipy THEN ftol ELSE gradient_descent_ftol))
       => status = "MAX_ITER_REACHED"
    /\ status = "MAX_ITER_REACHED" => iteration = max_iter

\* A gradient-descent fit hit the cap while the objective still moved by more
\* than its tolerance, and the builder call returned.
C17_Witness ==
    /\ pc = "returned"
    /\ ~using_scipy
    /\ status = "MAX_ITER_REACHED"
    /\ iteration = max_iter
    /\ Abs(Val(prev_loss) - Val(loss)) > gradient_descent_ftol

\* C18: every fit that is optimizing eventually ends as CONVERGED,
\* MAX_ITER_REACHED or FAILED.
C18_FitTerminates ==
    (status = "OPTIMIZING") ~> (status \in TerminalStatuses)

\* A fit used every iteration the cap allows before it ended.
C18_Witness ==
    /\ status \in TerminalStatuses
    /\ iteration = max_iter
    /\ pc = "fitting"

\* C19: in a sequence of calls of one builder, the estimator every finished
\* call fitted with held exactly the filtered_history and the split_history
\* of that call; a call without split_history fitted without one.
C19_SequentialFitsUseOwnHistories ==
    \A f \in Folds :
        ~IsNone(trained_on[f]) =>
            Val(trained_on[f]) =
                [filtered_history |-> Some(call_args[f].filtered_history),
                 split_history |-> call_args[f].split_history]

\* Every call fits with the filtered_history it was given.
SequentialFitsUseOwnFilteredHistory ==
    \A f \in Folds :
        ~IsNone(trained_on[f]) =>
            Val(trained_on[f]).filtered_history = Some(call_args[f].filtered_history)

\* Rows of a table with one module_id, of every module type and student.
RowsOfModule(rows, m) == { r \in rows : r.module_id = m }

\* A row of the table given to filter_history is in the table it returned.
RowKept(r, after) ==
    \E q \in after : /\ q.index = r.index
                     /\ q.module_type = r.module_type
                     /\ q.student_id = r.student_id
                     /\ q.module_id = r.module_id

IndexLabels(rows) == { r.index : r \in rows }

\* C21: repeating filter_history until the row count no longer changes
\* terminates: every application returns rows of its input only, so the row
\* count never grows, and an application that still changes the row count
\* is at most the n-th, n being the number of rows removed so far; the loop
\* therefore ends after at most as many applications as the unfiltered
\* history has rows, plus the one that changes nothing.
C21_RepeatedFilterTerminates ==
    [][num_applied' = num_applied + 1 =>
          /\ IndexLabels(history') \subseteq IndexLabels(history)
          /\ Cardinality(history') <= Cardinality(history)
          /\ Cardinality(history') < Cardinality(history) =>
                num_applied' <=
                    Cardinality(unfiltered_history) - Cardinality(history')
          /\ num_applied' > Cardinality(unfiltered_history) =>
                Cardinality(history') = Cardinality(history)]_vars

\* Four applications in a row removed rows, and the one after them changes
\* nothing.
C21_Witness ==
    /\ pc = "filter"
    /\ num_applied = 4
    /\ num_removed > 0
    /\ Cardinality(unfiltered_history) - Cardinality(history) >= 4
    /\ Cardinality(Filtered(history)) = Cardinality(history)

\* A row without its timestep column.
WithoutTimestep(r) ==
    [index |-> r.index, student_id |-> r.student_id, module_id |-> r.module_id,
     module_type |-> r.module_type, outcome |-> r.outcome,
     duration |-> r.duration]

\* C22: every application of filter_history returns exactly the rows of its
\* input whose student is in the set of kept students and whose module is
\* in the set of kept modules, one row for each of them and no other row,
\* with student_id, module_id, module_type, outcome and duration as in the
\* input (only timestep may differ), and the table of the history given to
\* the first application stays as it was.
C22_ExactlyKeptRowsOnlyTimestepChanges ==
    [][num_applied' = num_applied + 1 =>
          LET selected ==
                  { r \in history :
                      /\ r.student_id \in
                             FilterStudents(history, min_num_ixns, max_num_ixns)
                      /\ r.module_id \in FilterModules(history, min_num_ixns) }
          IN  /\ { WithoutTimestep(r) : r \in history' } =
                     { WithoutTimestep(r) : r \in selected }
              /\ Cardinality(history') = Cardinality(selected)
              /\ unfiltered_history' = unfiltered_history
              /\ (num_applied = 0 => unfiltered_history' = history)]_vars

\* One application removed a student and, from a student it kept, a module,
\* and a kept row has a new timestep.
C22_Witness ==
    /\ pc = "filter"
    /\ num_applied = 1
    /\ StudentsOf(history) # {}
    /\ StudentsOf(unfiltered_history) \ StudentsOf(history) # {}
    /\ \E r \in unfiltered_history :
          /\ r.student_id \in StudentsOf(history)
          /\ r.module_id \notin ModulesOf(history)
    /\ \E r \in history :
          \E q \in unfiltered_history :
              /\ WithoutTimestep(q) = WithoutTimestep(r)
              /\ q.timestep # r.timestep

\* The rows of one student at one timestep.
RowsAt(rows, s, ts) == { r \in rows : r.student_id = s /\ r.timestep = ts }

\* The twin of a row: the row of the other module type with its index label.
TwinsOf(rows, r) ==
    { q \in rows : q.index = r.index /\ q.module_type # r.module_type }

\* C23: in the history the parser built and in every history filter_history
\* returns from it, every (student, timestep) holds exactly one assessment
\* interaction and exactly one lesson interaction, both with the same
\* module_id; every row is there together with its twin, which has its
\* student, module and timestep; and the set of lesson ids equals the set of
\* assessment ids.
C23_AssessmentLessonPairing ==
    pc = "filter" =>
        /\ \A s \in StudentsOf(history) :
              \A ts \in TimestepsOf(history, s) :
                  /\ Cardinality(AssessmentRows(RowsAt(history, s, ts))) = 1
                  /\ Cardinality(LessonRows(RowsAt(history, s, ts))) = 1
                  /\ Cardinality(ModulesOf(RowsAt(history, s, ts))) = 1
        /\ \A r \in history :
              /\ Cardinality(TwinsOf(history, r)) = 1
              /\ \A q \in TwinsOf(history, r) :
                    /\ q.student_id = r.student_id
                    /\ q.module_id = r.module_id
                    /\ q.timestep = r.timestep
        /\ ModulesOf(LessonRows(history)) = ModulesOf(AssessmentRows(history))

\* Two applications removed rows: a student, and a module of a student that
\* is kept; assessment and lesson rows remain.
C23_Witness ==
    /\ pc = "filter"
    /\ num_applied = 2
    /\ num_removed > 0
    /\ AssessmentRows(history) # {}
    /\ LessonRows(history) # {}
    /\ StudentsOf(unfiltered_history) \ StudentsOf(history) # {}
    /\ \E r \in unfiltered_history :
          /\ r.student_id \in StudentsOf(history)
          /\ r.module_id \notin ModulesOf(history)

\* The builder of the model a name stands for.
BuilderOfName ==
    "0PL IRT (students)" :> "build_student_biased_coin_model" @@
    "0PL IRT (assessments)" :> "build_assessment_biased_coin_model" @@
    "1PL IRT" :> "build_1pl_irt_model" @@
    "2PL IRT" :> "build_2pl_irt_model"

\* C24: at every call of cross_validated_auc, whichever model_builders cell
\* was executed last, each baseline name of the dict is bound to the
\* builder of the model it names: '0PL IRT (students)' to the student
\* biased-coin builder and '0PL IRT (assessments)' to the assessment
\* biased-coin builder.
C24_NamesBoundToOwnBuilders ==
    [][cv_runs' = cv_runs + 1 =>
          \A name \in (DOMAIN model_builders) \cap (DOMAIN BuilderOfName) :
              model_builders[name] = BuilderOfName[name]]_vars

\* Grid coordinates.
GridRange == 0..(grid_size - 1)

\* C25: for every shuffled order of the (grid_size - 1) steps of each
\* direction, no lookup lesson_idx_of_loc[(x, y, i, j)] of the sampler
\* raises KeyError (the key of the step about to be taken exists), the
\* position (x, y) is inside the grid after every step, and the walk ends
\* at (grid_size - 1, grid_size - 1).
C25_WalkStaysOnGrid ==
    /\ pc # "KeyError"
    /\ pc \in {"steps", "assess", "synth_built"} =>
          /\ x \in GridRange
          /\ y \in GridRange
          /\ x + y = step_pos
          /\ step_pos < Len(steps) =>
                <<x, y, steps[step_pos + 1][1], steps[step_pos + 1][2]>>
                    \in DOMAIN lesson_idx_of_loc
          /\ step_pos = Len(steps) =>
                (x = grid_size - 1 /\ y = grid_size - 1)

\* A walk that alternated between the two directions, starting with (1, 0),
\* has taken all its steps.
C25_Witness ==
    /\ pc = "synth_built"
    /\ step_pos = 2 * (grid_size - 1)
    /\ steps[1] = <<1, 0>>
    /\ steps[2] = <<0, 1>>
    /\ x = grid_size - 1
    /\ y = grid_size - 1

\* Positions in data of the rows of one timestep.
PositionsAt(ts) == { k \in 1..Len(data) : data[k].timestep = ts }

\* C26: the sampled history of a student has the timesteps 1..2*grid_size-1
\* without a gap: one assessment at timestep 1, exactly one lesson at each
\* of the timesteps 1..2*grid_size-2, which comes after the assessments of
\* its timestep and before those of the next, and no lesson at the last
\* timestep; no write S[student, :, t+1] raises IndexError, the writes stay
\* within 2..2*(grid_size-1)+1 of a third dimension of size
\* 2*(grid_size-1)+2, and S[student, :, 0] is never written.
C26_TimestepsContiguousWritesInBounds ==
    /\ pc # "IndexError"
    /\ DOMAIN S = 0..(2 * (grid_size - 1) + 1)
    /\ S[0] = Zero
    /\ pc \in {"steps", "assess", "synth_built"} =>
          /\ 1..(t - 1) \subseteq { data[k].timestep : k \in 1..Len(data) }
          /\ { data[k].timestep : k \in 1..Len(data) } \subseteq 1..t
          /\ pc # "assess" => PositionsAt(t) # {}
          /\ t = step_pos + 1
          /\ Cardinality(PositionsAt(1) \cap AssessmentPositions) = 1
          /\ \A u \in 1..(t - 1) :
                /\ Cardinality(PositionsAt(u) \cap LessonPositions) = 1
                /\ \A k \in PositionsAt(u) \cap LessonPositions :
                      /\ \A a \in PositionsAt(u) \cap AssessmentPositions : a < k
                      /\ \A a \in PositionsAt(u + 1) : k < a
          /\ PositionsAt(t) \cap LessonPositions = {}
          /\ step_pos < Len(steps) => t + 1 \in 2..(2 * (grid_size - 1) + 1)
          /\ step_pos = Len(steps) => t = 2 * grid_size - 1
          /\ (pc = "steps" /\ t > 1) =>
                Cardinality(PositionsAt(t)) = num_assessment_interactions_per_step

\* The last lesson of a student has been consumed, its write went to the last
\* slot of S, and the assessments of the last timestep were sampled.
C26_Witness ==
    /\ pc = "synth_built"
    /\ t = 2 * grid_size - 1
    /\ t = num_lesson_interactions_per_student - 1
    /\ S[t] # Zero
    /\ Cardinality(LessonPositions) = 2 * grid_size - 2
    /\ Cardinality(PositionsAt(t) \cap AssessmentPositions) =
           num_assessment_interactions_per_step

\* The grid position reached after the first n steps of the shuffled walk.
PositionAfter(n) ==
    [dim \in 1..embedding_dimension |->
        Cardinality({ k \in 1..n : steps[k][dim] = 1 })]

\* cell_size times a grid position.
Scaled(loc) == [dim \in 1..embedding_dimension |-> cell_size * loc[dim]]

\* C27: the skill state tracks the grid position: at every timestep u the
\* sampler has reached, S[student, :, u] is cell_size times the position
\* reached after u - 1 lessons; the state of the current timestep is
\* cell_size times (x, y); it is (0, 0) at timestep 1 and (10, 10) at the
\* last timestep, for every order of the steps.
C27_SkillTracksGridPosition ==
    pc \in {"steps", "assess", "synth_built"} =>
        /\ \A u \in 1..t : S[u] = Scaled(PositionAfter(u - 1))
        /\ S[t] = Scaled(<<x, y>>)
        /\ S[1] = Zero
        /\ step_pos = Len(steps) =>
              S[t] = [dim \in 1..embedding_dimension |-> 10 * UnitsPerOne]

\* A walk that took all its steps in the second dimension first has reached
\* the far corner; half way its skill was (0, 10).
C27_Witness ==
    /\ pc = "synth_built"
    /\ \A k \in 1..(grid_size - 1) : steps[k] = <<0, 1>>
    /\ S[grid_size] = <<0, 10 * UnitsPerOne>>
    /\ S[t] = <<10 * UnitsPerOne, 10 * UnitsPerOne>>
    /\ x = grid_size - 1
    /\ y = grid_size - 1

\* lesson_count when the construction loop has ended.
lesson_count == Len(LessonKeys)

\* A function is one-to-one from its domain onto a set.
OneToOneOnto(f, range) ==
    /\ { f[k] : k \in DOMAIN f } = range
    /\ \A k1, k2 \in DOMAIN f : f[k1] = f[k2] => k1 = k2

\* The construction on the grid of the notebook: the index maps, the final
\* lesson_count and the rows of the arrays that are written.
GridConstructionDense ==
    /\ grid_size >= 2
    /\ DOMAIN assessment_idx_of_loc = GridRange \X GridRange
    /\ OneToOneOnto(assessment_idx_of_loc, 0..(grid_size * grid_size - 1))
    /\ num_assessments = grid_size * grid_size
    /\ lesson_count = num_lessons
    /\ num_lessons = 2 * grid_size * (grid_size - 1)
    /\ Cardinality(DOMAIN lesson_idx_of_loc) = lesson_count
    /\ DOMAIN lesson_idx_of_loc =
           { <<i, j, 0, 1>> : i \in GridRange, j \in 0..(grid_size - 2) } \cup
           { <<i, j, 1, 0>> : i \in 0..(grid_size - 2), j \in GridRange }
    /\ OneToOneOnto(lesson_idx_of_loc, 0..(num_lessons - 1))
    /\ DOMAIN L = 0..(num_lessons - 1)
    /\ DOMAIN Q = 0..(num_lessons - 1)
    /\ DOMAIN A = 0..(num_assessments - 1)

\* The construction loop on every grid from size 2 up to that of the
\* notebook: it adds 2*g*(g-1) keys, no key twice.
SmallerGridsDense ==
    \A g \in 2..grid_size :
        LET keys == LessonKeysOfGrid(g, 0)
        IN  /\ Len(keys) = 2 * g * (g - 1)
            /\ Cardinality({ keys[k] : k \in 1..Len(keys) }) = Len(keys)

\* C28: the grid construction assigns dense unique indices:
\* assessment_idx_of_loc maps the grid cells one-to-one onto
\* 0..grid_size^2-1, lesson_idx_of_loc maps the (cell, direction) keys
\* one-to-one onto 0..num_lessons-1, no key is added twice, the final
\* lesson_count is num_lessons = 2*grid_size*(grid_size-1), and the rows of
\* L and Q that are written are exactly the rows 0..num_lessons-1, each of
\* them once; the count holds for every grid size from 2 on; and every
\* index the sampler has used is one of the dense ones.
C28_GridIndicesDense ==
    /\ GridConstructionDense
    /\ SmallerGridsDense
    /\ \A k \in LessonPositions :
          LessonIdxOfId(data[k].module_id) \in 0..(num_lessons - 1)
    /\ \A k \in AssessmentPositions :
          AssessmentIdxOfId(data[k].module_id) \in 0..(num_assessments - 1)

\* A sampled walk has used the first and the last lesson of the
\* construction, and the assessments with the lowest and the highest index.
C28_Witness ==
    /\ pc = "synth_built"
    /\ \E k \in LessonPositions : LessonIdxOfId(data[k].module_id) = 0
    /\ \E k \in LessonPositions :
          LessonIdxOfId(data[k].module_id) = num_lessons - 1
    /\ \E k \in AssessmentPositions : AssessmentIdxOfId(data[k].module_id) = 0
    /\ \E k \in AssessmentPositions :
          AssessmentIdxOfId(data[k].module_id) = num_assessments - 1

(***************************************************************************)
(* The results table: for every name of a fixed list the three AUCs are    *)
(* looked up and one row is printed; a KeyError of a lookup skips the name. *)
(* In this workflow results holds the three tables of the results object.  *)
(***************************************************************************)

\* names of the results table cell.
names ==
    << "0PL IRT (students)", "0PL IRT (assessments)", "1PL IRT", "2PL IRT",
       "d=2, without lessons and bias", "d=2, without lessons, with bias",
       "d=2, without prereqs and bias", "d=2, without prereqs, with bias",
       "d=2, with prereqs, without bias", "d=2, with prereqs and bias" >>

\* Model names the tables of a results object may hold: the first, a middle
\* and the last name of the list, and one the list does not have.
StoredNames ==
    { "0PL IRT (students)", "2PL IRT", "d=2, with prereqs and bias", "2D MIRT" }

\* A table of a results object: the value kept under every name it holds.
AucTable(kind, held) == [k \in held |-> <<kind, k>>]

\* results.training_auc_mean(k), results.validation_auc_mean(k) and
\* results.test_auc(k): the value kept under k, or None for a KeyError.
training_auc_mean(res, k) ==
    IF k \in DOMAIN res.training THEN Some(res.training[k]) ELSE None

validation_auc_mean(res, k) ==
    IF k \in DOMAIN res.validation THEN Some(res.validation[k]) ELSE None

test_auc_of(res, k) ==
    IF k \in DOMAIN res.test THEN Some(res.test[k]) ELSE None

\* The locals after the try block of one name: the lookups are made in
\* order, and the first KeyError leaves the later locals as they were.
\* raised tells whether the except branch was taken.
TryLookups(res, k, before) ==
    LET tr == training_auc_mean(res, k)
        va == validation_auc_mean(res, k)
        te == test_auc_of(res, k)
    IN  IF IsNone(tr)
        THEN [train |-> before.train, val |-> before.val, test |-> before.test,
              raised |-> TRUE]
        ELSE IF IsNone(va)
        THEN [train |-> tr, val |-> before.val, test |-> before.test,
              raised |-> TRUE]
        ELSE IF IsNone(te)
        THEN [train |-> tr, val |-> va, test |-> before.test, raised |-> TRUE]
        ELSE [train |-> tr, val |-> va, test |-> te, raised |-> FALSE]

\* Variant: the row is printed as soon as the first lookup has succeeded.
RowIsPrinted_AfterFirstLookup(res, k, after) == k \in DOMAIN res.training

\* except KeyError: continue -- the print is reached only without KeyError.
RowIsPrinted(res, k, after) == ~after.raised

InitResultsTable ==
    /\ pc = "table"
    /\ \E tr, va, te \in SUBSET StoredNames :
          results = [training |-> AucTable("training", tr),
                     validation |-> AucTable("validation", va),
                     test |-> AucTable("test", te)]
    /\ model_builders = <<>>
    /\ num_folds = 0
    /\ results_file = None
    /\ cv_runs = 0
    /\ compared = None
    /\ history = {}
    /\ data = <<>>
    /\ log = <<>>
    /\ InitIdleTable
    /\ InitIdleParse
    /\ InitIdleFilter
    /\ InitIdleSynth
    /\ InitIdleFit
    /\ InitIdleIrt
    /\ InitIdleIdx
    /\ InitIdleEst

\* One iteration of `for k in names`; a printed row holds the three locals
\* and the name.
TableRow ==
    /\ pc = "table"
    /\ name_pos < Len(names)
    /\ LET k == names[name_pos + 1]
           after == TryLookups(results, k,
                        [train |-> train_auc, val |-> val_auc, test |-> test_auc])
       IN  /\ train_auc' = after.train
           /\ val_auc' = after.val
           /\ test_auc' = after.test
           /\ printed' = IF RowIsPrinted(results, k, after)
                         THEN Append(printed,
                                  <<after.train, after.val, after.test, k>>)
                         ELSE printed
    /\ name_pos' = name_pos + 1
    /\ UNCHANGED <<estVars, evalVars, idxVars, irtVars, parseVars, history, log,
                   filterVars, synthVars, fitVars>>

\* The list is exhausted and the cell ends.
EndTable ==
    /\ pc = "table"
    /\ name_pos = Len(names)
    /\ pc' = "table_done"
    /\ UNCHANGED <<tableVars, estVars, evalVars, idxVars, irtVars, parser, raw, data,
                   student_timesteps, timesteps, history, log, filterVars,
                   synthVars, fitVars>>

NextResultsTable == TableRow \/ EndTable

SpecResultsTable == InitResultsTable /\ [][NextResultsTable]_vars

\* Positions of the visited names for which all three lookups succeed.
CompletePositions ==
    { p \in 1..name_pos :
        /\ names[p] \in DOMAIN results.training
        /\ names[p] \in DOMAIN results.validation
        /\ names[p] \in DOMAIN results.test }

\* C29: the results table loop has printed a row for a visited name if and
\* only if all three lookups (training AUC mean, validation AUC mean, test
\* AUC) succeed for it; a name with a KeyError in any lookup has no row, not
\* even a partial one; every row holds the three values of its own name;
\* and the rows are in the order of the list.
C29_RowIffAllLookupsSucceed ==
    pc \in {"table", "table_done"} =>
        /\ Len(printed) = Cardinality(CompletePositions)
        /\ \A p \in 1..name_pos :
              (\E r \in 1..Len(printed) : printed[r][4] = names[p])
                  <=> p \in CompletePositions
        /\ \A r \in 1..Len(printed) :
              /\ Len(printed[r]) = 4
              /\ printed[r][1] = Some(results.training[printed[r][4]])
              /\ printed[r][2] = Some(results.validation[printed[r][4]])
              /\ printed[r][3] = Some(results.test[printed[r][4]])
        /\ \A r1, r2 \in 1..Len(printed) :
              r1 < r2 =>
                  \E p1, p2 \in 1..name_pos :
                      /\ p1 < p2
                      /\ names[p1] = printed[r1][4]
                      /\ names[p2] = printed[r2][4]
        /\ pc = "table_done" => name_pos = Len(names)

\* The loop has ended: the first name was skipped after its first lookup
\* had succeeded and its second had raised KeyError, a name in the middle
\* was skipped at its third lookup, and the last name was printed after
\* them.
C29_Witness ==
    /\ pc = "table_done"
    /\ "0PL IRT (students)" \in DOMAIN results.training
    /\ "0PL IRT (students)" \notin DOMAIN results.validation
    /\ "2PL IRT" \in (DOMAIN results.training) \cap (DOMAIN results.validation)
    /\ "2PL IRT" \notin DOMAIN results.test
    /\ printed = << << Some(<<"training", "d=2, with prereqs and bias">>),
                       Some(<<"validation", "d=2, with prereqs and bias">>),
                       Some(<<"test", "d=2, with prereqs and bias">>),
                       "d=2, with prereqs and bias" >> >>

====
